---- MODULE Spec2Model ----
(***************************************************************************)
(* dataclass_meta_argparse: a parser built from dataclass field metadata,  *)
(* the environment overlay (_extra_args_from_env / args_from_env) and      *)
(* from_args.                                                              *)
(*                                                                         *)
(* Python strings that the code inspects character by character (flag      *)
(* strings, environment variable names and values, command line tokens)    *)
(* are sequences of one-character strings.  Field names, which the code    *)
(* only compares, are TLA+ strings.                                        *)
(***************************************************************************)
EXTENDS Integers, Sequences, FiniteSets, TLC

VARIABLES
  config,   \* the arguments the configured decorator was created with
  parsers,  \* the ArgumentParser objects alive, in creation order
  classes,  \* the wrapper classes issued so far: [rec, parser]
  env,      \* os.environ: an insertion-ordered mapping, <<[name, val], ...>>
  result,   \* what the most recent build or call returned or raised
  label,    \* envize: the option label under normalisation
  once,     \* envize: envize(label)
  twice,    \* envize: envize(envize(label))
  phase     \* envize: how many times envize has been applied

vars == <<config, parsers, classes, env, result, label, once, twice, phase>>
mainVars == <<config, parsers, classes, env, result>>
envizeVars == <<label, once, twice, phase>>

----------------------------------------------------------------------------
(* Bounds *)

MaxLabelLen == 4
MaxEnv == 2
MaxBuilds == 2

----------------------------------------------------------------------------
(* Characters *)

Lowers == {"a","b","c","d","e","f","g","h","i","j","k","l","m",
           "n","o","p","q","r","s","t","u","v","w","x","y","z"}
Uppers == {"A","B","C","D","E","F","G","H","I","J","K","L","M",
           "N","O","P","Q","R","S","T","U","V","W","X","Y","Z"}
Digits == {"0","1","2","3","4","5","6","7","8","9"}

\* the character class [a-zA-Z0-9] of the regular expression
Alnum == Lowers \cup Uppers \cup Digits

IsAlnum(ch) == ch \in Alnum

\* str.upper() on one character of [a-zA-Z0-9_]
UpperOf[ch \in Lowers] ==
  CASE ch = "a" -> "A" [] ch = "b" -> "B" [] ch = "c" -> "C" [] ch = "d" -> "D"
    [] ch = "e" -> "E" [] ch = "f" -> "F" [] ch = "g" -> "G" [] ch = "h" -> "H"
    [] ch = "i" -> "I" [] ch = "j" -> "J" [] ch = "k" -> "K" [] ch = "l" -> "L"
    [] ch = "m" -> "M" [] ch = "n" -> "N" [] ch = "o" -> "O" [] ch = "p" -> "P"
    [] ch = "q" -> "Q" [] ch = "r" -> "R" [] ch = "s" -> "S" [] ch = "t" -> "T"
    [] ch = "u" -> "U" [] ch = "v" -> "V" [] ch = "w" -> "W" [] ch = "x" -> "X"
    [] ch = "y" -> "Y" [] OTHER -> "Z"

UpperChar(ch) == IF ch \in Lowers THEN UpperOf[ch] ELSE ch

Upper(s) == [i \in 1..Len(s) |-> UpperChar(s[i])]

\* re.sub(r'[^a-zA-Z0-9]+', '_', s): every maximal run of characters outside
\* the class becomes one underscore
RECURSIVE ReSub(_)
ReSub(s) ==
  IF s = << >> THEN << >>
  ELSE IF IsAlnum(s[1]) THEN <<s[1]>> \o ReSub(Tail(s))
  ELSE IF Len(s) > 1 /\ ~IsAlnum(s[2]) THEN ReSub(Tail(s))
  ELSE <<"_">> \o ReSub(Tail(s))

\* str.strip('_')
RECURSIVE StripUnderscores(_)
StripUnderscores(s) ==
  IF s = << >> THEN << >>
  ELSE IF s[1] = "_" THEN StripUnderscores(Tail(s))
  ELSE IF s[Len(s)] = "_" THEN StripUnderscores(SubSeq(s, 1, Len(s) - 1))
  ELSE s

\* the default keep_case: lambda s: len(s) == 1
keep_case(s) == Len(s) = 1

\* a slip in the order of the two calls: strip('_') applied before re.sub
subbed_stripFirst(s) == ReSub(StripUnderscores(s))

subbed(s) == StripUnderscores(ReSub(s))

default_envize_string(s) ==
  LET sub == subbed(s)
  IN  IF keep_case(sub) THEN sub ELSE Upper(sub)

----------------------------------------------------------------------------
(* The strings of the model *)

F_ct   == <<"-","-","c","t">>
F_c    == <<"-","c">>
F_v    == <<"-","v">>
F_vv   == <<"-","-","v","v">>
F_q    == <<"-","q">>
F_nn   == <<"-","-","n","n">>
F_h    == <<"-","h">>
F_help == <<"-","-","h","e","l","p">>

N_AP_CT == <<"A","P","_","C","T">>
N_AP_c  == <<"A","P","_","c">>
N_AP_v  == <<"A","P","_","v">>
N_AP_NN == <<"A","P","_","N","N">>
N_AP_X  == <<"A","P","_","X">>
N_HOME  == <<"H","O","M","E">>

V_5 == <<"5">>
V_9 == <<"9">>
V_1 == <<"1">>
V_x == <<"x">>

----------------------------------------------------------------------------
(* Python values held by a namespace or a record *)

NoneVal == [t |-> "none", n |-> 0, s |-> << >>, items |-> << >>]
IntVal(k) == [t |-> "int", n |-> k, s |-> << >>, items |-> << >>]
StrVal(x) == [t |-> "str", n |-> 0, s |-> x, items |-> << >>]
BoolVal(b) == [t |-> "bool", n |-> IF b THEN 1 ELSE 0, s |-> << >>, items |-> << >>]
ListVal(xs) == [t |-> "list_int", n |-> 0, s |-> << >>, items |-> xs]

DigitVal(ch) ==
  CASE ch = "0" -> 0 [] ch = "1" -> 1 [] ch = "2" -> 2 [] ch = "3" -> 3
    [] ch = "4" -> 4 [] ch = "5" -> 5 [] ch = "6" -> 6 [] ch = "7" -> 7
    [] ch = "8" -> 8 [] ch = "9" -> 9 [] OTHER -> 0

\* int(s), type=int of an argument, on the tokens of the model: a non-empty
\* string of digits converts, any other token raises ValueError
IntOk(s) == s # << >> /\ \A i \in 1..Len(s) : s[i] \in Digits

RECURSIVE IntOf(_)
IntOf(s) ==
  IF s = << >> THEN 0 ELSE 10 * IntOf(SubSeq(s, 1, Len(s) - 1)) + DigitVal(s[Len(s)])

\* trycast.isassignable(value, declared type)
isassignable(val, ty) ==
  CASE ty = "int" -> val.t \in {"int", "bool"}
    [] ty = "bool" -> val.t = "bool"
    [] ty = "Optional[List[int]]" -> val.t \in {"none", "list_int"}
    [] OTHER -> FALSE

----------------------------------------------------------------------------
(* The record types (dataclasses) the decorator is applied to.  nargs is    *)
(* << >> for None and <<k>> for the integer k.                             *)

Arg(flags, action, nargs) ==
  [flags |-> flags, action |-> action, nargs |-> nargs]

Fld(name, type, has_default, default, args) ==
  [name |-> name, type |-> type, has_default |-> has_default,
   default |-> default, args |-> args]

Recs == {"Empty", "Cli", "Other", "Dup"}

RecDecl(r) ==
  CASE r = "Cli" ->
         [fields |-> << Fld("ct", "int", FALSE, NoneVal,
                            << Arg(<<F_ct, F_c>>, "store", << >>) >>),
                        Fld("v", "int", TRUE, IntVal(0),
                            << Arg(<<F_v>>, "count", << >>) >>) >>,
          has_post_init |-> FALSE]
    [] r = "Other" ->
         [fields |-> << Fld("q", "bool", TRUE, BoolVal(FALSE),
                            << Arg(<<F_q>>, "store_true", << >>) >>),
                        Fld("n", "Optional[List[int]]", TRUE, NoneVal,
                            << Arg(<<F_nn>>, "store", <<1>>) >>) >>,
          has_post_init |-> TRUE]
    [] r = "Dup" ->
         [fields |-> << Fld("a", "bool", TRUE, BoolVal(FALSE),
                            << Arg(<<F_v>>, "store_true", << >>) >>),
                        Fld("b", "bool", TRUE, BoolVal(FALSE),
                            << Arg(<<F_v, F_vv>>, "store_true", << >>) >>) >>,
          has_post_init |-> FALSE]
    [] OTHER -> [fields |-> << >>, has_post_init |-> FALSE]

fields(r) == RecDecl(r).fields

FieldNames(r) == {fields(r)[i].name : i \in 1..Len(fields(r))}

FieldOf(r, name) ==
  fields(r)[CHOOSE i \in 1..Len(fields(r)) : fields(r)[i].name = name]

\* for field in fields(cls): for add_arg_fn in field.metadata[ARGS]: the
\* (field name, argument specification) pairs in registration order
RECURSIVE Registrations(_)
Registrations(fs) ==
  IF fs = << >> THEN << >>
  ELSE [i \in 1..Len(fs[1].args) |-> [dest |-> fs[1].name, arg |-> fs[1].args[i]]]
       \o Registrations(Tail(fs))

----------------------------------------------------------------------------
(* argparse.ArgumentParser, as far as the repository uses it *)

\* ArgumentParser(*args, **kwargs): add_help registers -h/--help
NewParser(prog) ==
  [prog |-> prog,
   actions |-> << [dest |-> "help", kind |-> "help", nargs |-> <<0>>,
                   option_strings |-> <<F_h, F_help>>] >>,
   osa |-> << [opt |-> F_h, act |-> 1], [opt |-> F_help, act |-> 1] >>]

\* parser._option_string_actions.keys(), in insertion order
OptionStrings(p) == [i \in 1..Len(p.osa) |-> p.osa[i].opt]

OptionSet(p) == {p.osa[i].opt : i \in 1..Len(p.osa)}

\* parser._option_string_actions[opt]
ActionOf(p, opt) ==
  p.actions[p.osa[CHOOSE i \in 1..Len(p.osa) : p.osa[i].opt = opt].act]

\* the nargs an action class gives itself: 0 for store_true and count
ActionNargs(arg) ==
  IF arg.action \in {"store_true", "count"} THEN <<0>> ELSE arg.nargs

\* add_argument(*flags, dest=dest) under the default conflict_handler
\* 'error': a flag string already registered raises ArgumentError and
\* registers nothing of this argument
Conflicts(p, arg) ==
  \E i \in 1..Len(arg.flags) : arg.flags[i] \in OptionSet(p)

add_argument(p, arg, dest) ==
  [p EXCEPT
     !.actions = Append(@, [dest |-> dest, kind |-> arg.action,
                            nargs |-> ActionNargs(arg),
                            option_strings |-> arg.flags]),
     !.osa = @ \o [i \in 1..Len(arg.flags) |->
                     [opt |-> arg.flags[i], act |-> Len(p.actions) + 1]]]

\* a registration loop that swallows the conflict and carries on
RECURSIVE RegisterAll_skipConflicts(_, _)
RegisterAll_skipConflicts(p, regs) ==
  IF regs = << >> THEN [parser |-> p, ok |-> TRUE]
  ELSE IF Conflicts(p, regs[1].arg)
       THEN RegisterAll_skipConflicts(p, Tail(regs))
       ELSE RegisterAll_skipConflicts(
              add_argument(p, regs[1].arg, regs[1].dest), Tail(regs))

\* add_arg_fn(argument_parser, dest=field.name) for every registration, in
\* order; the first conflict raises out of the loop and leaves the parser
\* with what was registered before it
RECURSIVE RegisterAll(_, _)
RegisterAll(p, regs) ==
  IF regs = << >> THEN [parser |-> p, ok |-> TRUE]
  ELSE IF Conflicts(p, regs[1].arg) THEN [parser |-> p, ok |-> FALSE]
  ELSE RegisterAll(add_argument(p, regs[1].arg, regs[1].dest), Tail(regs))

\* the destinations parse_args puts in the namespace (help is suppressed)
Dests(p) ==
  {p.actions[i].dest : i \in {j \in 1..Len(p.actions) : p.actions[j].kind # "help"}}

DefaultOf(p, d) ==
  LET a == p.actions[CHOOSE i \in 1..Len(p.actions) : p.actions[i].dest = d]
  IN  IF a.kind = "store_true" THEN BoolVal(FALSE) ELSE NoneVal

InitNs(p) == [d \in Dests(p) |-> DefaultOf(p, d)]

EmptyNs == [d \in {} |-> NoneVal]

\* a token argparse takes for an option: it starts with '-' and is longer
LooksLikeFlag(tok) == Len(tok) > 1 /\ tok[1] = "-"

\* how many tokens at the head of toks are arguments (not options)
RECURSIVE LeadingArgs(_)
LeadingArgs(toks) ==
  IF toks = << >> \/ LooksLikeFlag(toks[1]) THEN 0 ELSE 1 + LeadingArgs(Tail(toks))

\* parse_args over tokens that are exact flag strings or plain values (no
\* abbreviations, no --flag=value, no positionals are registered): an
\* unknown token is collected and reported at the end, a known option
\* takes its nargs values and runs its action.  argparse reports an error
\* by SystemExit(2) and help by SystemExit(0).
RECURSIVE ParseLoop(_, _, _, _)
ParseLoop(p, toks, ns, extras) ==
  IF toks = << >>
  THEN IF extras THEN [kind |-> "SystemExit2", ns |-> EmptyNs]
                 ELSE [kind |-> "ok", ns |-> ns]
  ELSE IF ~LooksLikeFlag(toks[1]) \/ toks[1] \notin OptionSet(p)
  THEN ParseLoop(p, Tail(toks), ns, TRUE)
  ELSE LET a == ActionOf(p, toks[1])
           k == IF a.nargs = << >> THEN 1 ELSE a.nargs[1]
           rest == Tail(toks)
           vals == SubSeq(rest, 1, k)
           after == SubSeq(rest, k + 1, Len(rest))
       IN  IF a.kind = "help" THEN [kind |-> "SystemExit0", ns |-> EmptyNs]
           ELSE IF LeadingArgs(rest) < k THEN [kind |-> "SystemExit2", ns |-> EmptyNs]
           ELSE IF a.kind = "store_true"
           THEN ParseLoop(p, after, [ns EXCEPT ![a.dest] = BoolVal(TRUE)], extras)
           ELSE IF a.kind = "count"
           THEN ParseLoop(p, after,
                  [ns EXCEPT ![a.dest] = IntVal(IF @.t = "none" THEN 1 ELSE @.n + 1)],
                  extras)
           ELSE IF \E i \in 1..k : ~IntOk(vals[i])
           THEN [kind |-> "SystemExit2", ns |-> EmptyNs]
           ELSE ParseLoop(p, after,
                  [ns EXCEPT ![a.dest] =
                     IF a.nargs = << >> THEN IntVal(IntOf(vals[1]))
                     ELSE ListVal([i \in 1..k |-> IntOf(vals[i])])],
                  extras)

parse_args(p, toks) == ParseLoop(p, toks, InitNs(p), FALSE)

----------------------------------------------------------------------------
(* The environment overlay *)

\* prefix: str = env_prefix or envize_str_fn(parser.prog)
Prefix(p) ==
  IF config.env_prefix # << >> THEN config.env_prefix
  ELSE default_envize_string(p.prog)

\* envvar.startswith(prefix + '_')
startswith(name, pre) ==
  Len(name) >= Len(pre) /\ SubSeq(name, 1, Len(pre)) = pre

\* the keys of envized_opts = {envize_str_fn(opt): opt for opt in keys},
\* listed beside the option strings they come from
EnvizedKeys(p) == [i \in 1..Len(p.osa) |-> default_envize_string(p.osa[i].opt)]

\* envized_opts[tok]: a later key with the same normal form replaces an
\* earlier one
envized_opts(p, keys, tok) ==
  LET I == {i \in 1..Len(keys) : keys[i] = tok}
  IN  p.osa[CHOOSE i \in I : \A j \in I : j <= i].opt

\* a guard that forgets nargs None: only an explicit non-zero nargs counts
TakesValue_explicitOnly(nargs) == nargs # << >> /\ nargs[1] # 0

\* action.nargs is None or action.nargs
TakesValue(nargs) == nargs = << >> \/ nargs[1] # 0

\* extra_arg = [opt] + ([envvar_val] if ... else [])
extra_arg(opt, val, nargs) ==
  <<opt>> \o (IF TakesValue(nargs) THEN <<val>> ELSE << >>)

\* the list of the call before, kept (a list shared between calls)
InitialExtraArgs_kept == result.extra

\* extra_args: List[str] = []
InitialExtraArgs == << >>

\* a loop that passes over an unrecognized variable instead of raising
RECURSIVE OverlayLoop_ignoreUnknown(_, _, _, _, _, _)
OverlayLoop_ignoreUnknown(p, prefix_, keys, e, extra_args, log) ==
  IF e = << >>
  THEN [kind |-> "ok", extra |-> extra_args, log |-> log, envvar |-> << >>]
  ELSE IF ~startswith(e[1].name, prefix_) \/ e[1].val = << >>
          \/ \A i \in 1..Len(keys) :
               keys[i] # SubSeq(e[1].name, Len(prefix_) + 1, Len(e[1].name))
  THEN OverlayLoop_ignoreUnknown(p, prefix_, keys, Tail(e), extra_args, log)
  ELSE LET opt == envized_opts(p, keys,
                    SubSeq(e[1].name, Len(prefix_) + 1, Len(e[1].name)))
           ea == extra_arg(opt, e[1].val, ActionOf(p, opt).nargs)
       IN  OverlayLoop_ignoreUnknown(p, prefix_, keys, Tail(e), ea \o extra_args,
             Append(log, [envvar |-> e[1].name, extra_arg |-> ea]))

\* a loop whose skip test forgets `or not envvar_val`: an empty value is
\* looked up and emitted like any other
RECURSIVE OverlayLoop_emptyValueKept(_, _, _, _, _, _)
OverlayLoop_emptyValueKept(p, prefix_, keys, e, extra_args, log) ==
  IF e = << >>
  THEN [kind |-> "ok", extra |-> extra_args, log |-> log, envvar |-> << >>]
  ELSE LET envvar == e[1].name
           envized_opt == SubSeq(envvar, Len(prefix_) + 1, Len(envvar))
       IN  IF ~startswith(envvar, prefix_)
           THEN OverlayLoop_emptyValueKept(p, prefix_, keys, Tail(e), extra_args, log)
           ELSE IF \A i \in 1..Len(keys) : keys[i] # envized_opt
           THEN [kind |-> "ValueError", extra |-> << >>, log |-> log,
                 envvar |-> envvar]
           ELSE LET opt == envized_opts(p, keys, envized_opt)
                    ea == extra_arg(opt, e[1].val, ActionOf(p, opt).nargs)
                IN  OverlayLoop_emptyValueKept(p, prefix_, keys, Tail(e),
                      ea \o extra_args,
                      Append(log, [envvar |-> envvar, extra_arg |-> ea]))

\* the loop over env.items(), from the item at the head of e on
RECURSIVE OverlayLoop(_, _, _, _, _, _)
OverlayLoop(p, prefix_, keys, e, extra_args, log) ==
  IF e = << >>
  THEN [kind |-> "ok", extra |-> extra_args, log |-> log, envvar |-> << >>]
  ELSE LET envvar == e[1].name
           envvar_val == e[1].val
           envized_opt == SubSeq(envvar, Len(prefix_) + 1, Len(envvar))
       IN  IF ~startswith(envvar, prefix_) \/ envvar_val = << >>
           THEN OverlayLoop(p, prefix_, keys, Tail(e), extra_args, log)
           ELSE IF \A i \in 1..Len(keys) : keys[i] # envized_opt
           THEN [kind |-> "ValueError", extra |-> << >>, log |-> log,
                 envvar |-> envvar]
           ELSE LET opt == envized_opts(p, keys, envized_opt)
                    ea == extra_arg(opt, envvar_val, ActionOf(p, opt).nargs)
                IN  OverlayLoop(p, prefix_, keys, Tail(e), ea \o extra_args,
                                Append(log, [envvar |-> envvar, extra_arg |-> ea]))

_extra_args_from_env(p, e) ==
  OverlayLoop(p, Prefix(p) \o <<"_">>, EnvizedKeys(p), e, InitialExtraArgs, << >>)

NoOverlay == [kind |-> "ok", extra |-> << >>, log |-> << >>, envvar |-> << >>]

----------------------------------------------------------------------------
(* Construction of a record and the type validation hook *)

\* whether the generated __init__ reaches the validation:
\*  - the package's wrapper is itself a dataclass that defines __post_init__,
\*    which validates if validate_field_types;
\*  - the single-file module sets __post_init__ on a wrapper that is not
\*    re-processed by @dataclass, so the inherited __init__ calls it only if
\*    the decorated dataclass had a __post_init__ of its own;
\*  - the ArgTypeValidation plugin validates in its __post_init__.
Validates(r) ==
  CASE config.impl = "package" -> config.validate_field_types
    [] config.impl = "module" ->
         config.validate_field_types /\ RecDecl(r).has_post_init
    [] OTHER -> config.validate_field_types

\* _validate_types: the first field, in declaration order, whose value is
\* not assignable to its declared type fails the assertion
BadFields(r, record) ==
  {i \in 1..Len(fields(r)) : ~isassignable(record[fields(r)[i].name], fields(r)[i].type)}

FirstBadField(r, record) ==
  fields(r)[CHOOSE i \in BadFields(r, record) : \A j \in BadFields(r, record) : i <= j].name

\* cls(**kwargs)
Construct(r, kwargs) ==
  IF (DOMAIN kwargs) \ FieldNames(r) # {}
     \/ \E i \in 1..Len(fields(r)) :
          ~fields(r)[i].has_default /\ fields(r)[i].name \notin DOMAIN kwargs
  THEN [kind |-> "TypeError", record |-> EmptyNs, field |-> "", validated |-> FALSE]
  ELSE LET record == [f \in FieldNames(r) |->
                        IF f \in DOMAIN kwargs THEN kwargs[f] ELSE FieldOf(r, f).default]
       IN  IF Validates(r) /\ BadFields(r, record) # {}
           THEN [kind |-> "AssertionError", record |-> EmptyNs,
                 field |-> FirstBadField(r, record), validated |-> TRUE]
           ELSE [kind |-> "ok", record |-> record, field |-> "",
                 validated |-> Validates(r)]

----------------------------------------------------------------------------
(* from_args *)

NoResult ==
  [op |-> "none", cls |-> 0, rec |-> "", given |-> FALSE, argv |-> << >>,
   sysargv |-> << >>, kind |-> "none", envvar |-> << >>, field |-> "",
   overlaid |-> FALSE, extra |-> << >>, log |-> << >>, tokens |-> << >>,
   parsed |-> FALSE, ns |-> EmptyNs, record |-> EmptyNs, kwargs |-> EmptyNs,
   validated |-> FALSE]

\* whether this call computes the overlay: the decorator's from_args does
\* so only when argv is None; the ArgsFromEnv plugin does so always
Overlays(given) ==
  IF config.impl = "plugin" THEN config.include_env
  ELSE ~given /\ config.include_env

\* the explicit arguments of the call: argv, or sys.argv[1:] when omitted
Explicit(given, argv, sysargv) == IF given THEN argv ELSE sysargv

\* explicit arguments first, overlay after them
MergedArgv_append(extra, explicit) == explicit \o extra

\* (cls._extra_args_from_env() if include_env else []) + sys.argv[1:]
\* cls.args_from_env() + argv
MergedArgv(extra, explicit) == extra \o explicit

\* parser.parse_args(argv); cls(**args_ns.__dict__)
ParseAndConstruct(c, base, toks) ==
  LET pr == parse_args(parsers[classes[c].parser], toks)
      cons == Construct(classes[c].rec, pr.ns)
  IN  IF pr.kind # "ok"
      THEN [base EXCEPT !.kind = pr.kind, !.tokens = toks, !.parsed = TRUE]
      ELSE [base EXCEPT !.kind = cons.kind, !.tokens = toks, !.parsed = TRUE,
                        !.ns = pr.ns, !.record = cons.record,
                        !.field = cons.field, !.validated = cons.validated]

from_args(c, given, argv, sysargv) ==
  LET base == [NoResult EXCEPT !.op = "from_args", !.cls = c,
                 !.rec = classes[c].rec, !.given = given,
                 !.argv = argv, !.sysargv = sysargv]
      ov == IF Overlays(given)
            THEN _extra_args_from_env(parsers[classes[c].parser], env)
            ELSE NoOverlay
      seen == [base EXCEPT !.overlaid = Overlays(given), !.log = ov.log]
  IN  IF config.impl = "plugin" /\ config.include_env /\ ~given
      THEN [base EXCEPT !.kind = "TypeError"]
      ELSE IF ov.kind # "ok"
      THEN [seen EXCEPT !.kind = ov.kind, !.envvar = ov.envvar]
      ELSE ParseAndConstruct(c, [seen EXCEPT !.extra = ov.extra],
                             MergedArgv(ov.extra, Explicit(given, argv, sysargv)))

----------------------------------------------------------------------------
(* Inputs *)

Prog == <<"a","p">>

\* env_prefix is None (<< >>) or 'AP'; it is read by the overlay alone, so
\* an explicit prefix is tried where the overlay is enabled
Configs ==
  { cf \in [impl : {"module", "package", "plugin"},
            include_env : BOOLEAN,
            validate_field_types : BOOLEAN,
            env_prefix : {<< >>, <<"A","P">>}] :
      cf.env_prefix = << >> \/ (cf.include_env /\ ~cf.validate_field_types) }

EnvPool ==
  { [name |-> N_AP_CT, val |-> V_5], [name |-> N_AP_c, val |-> V_9],
    [name |-> N_AP_v, val |-> V_1], [name |-> N_AP_NN, val |-> V_5],
    [name |-> N_AP_X, val |-> V_1], [name |-> N_AP_X, val |-> << >>],
    [name |-> N_AP_CT, val |-> << >>],
    [name |-> N_HOME, val |-> V_5] }

ArgvPool ==
  { << >>, <<F_ct, V_9>>, <<F_v>>, <<F_ct, V_x>>, <<F_nn, V_5>> }

SysArgvPool == { << >>, <<F_ct, V_9>>, <<F_v>> }

KwargsPool(r) ==
  CASE r = "Cli" -> { "ct" :> IntVal(5), "ct" :> StrVal(V_x), EmptyNs }
    [] r = "Other" -> { "q" :> IntVal(5), EmptyNs }
    [] OTHER -> { EmptyNs }

EnvizeAlphabet == {"a", "B", "7", "-", "_"}

Labels == UNION {[1..n -> EnvizeAlphabet] : n \in 0..MaxLabelLen}

----------------------------------------------------------------------------
(* The state machine *)

Init ==
  /\ config \in Configs
  /\ parsers = IF config.impl = "module" THEN <<NewParser(Prog)>> ELSE << >>
  /\ classes = << >>
  /\ env = << >>
  /\ result = NoResult
  /\ label = << >> /\ once = << >> /\ twice = << >> /\ phase = 0

Idle == result.op = "none"

\* a call is made afresh, or repeats the call whose outcome is still held
Repeats(op, c, given, argv, sysargv, kwargs) ==
  /\ result.op = op /\ result.cls = c /\ result.given = given
  /\ result.argv = argv /\ result.sysargv = sysargv /\ result.kwargs = kwargs

BuildResult(r, kind) == [NoResult EXCEPT !.op = "build", !.rec = r, !.kind = kind]

\* the single-file module: one parser per configured decorator, created in
\* the body of _argument_parser_from_dataclass_meta_base and filled by
\* __init_subclass__ every time the decorator wraps a class
BuildModule(r) ==
  /\ config.impl = "module" /\ Idle /\ Len(classes) < MaxBuilds
  /\ LET reg == RegisterAll(parsers[1], Registrations(fields(r)))
     IN  /\ parsers' = <<reg.parser>>
         /\ classes' = IF reg.ok THEN Append(classes, [rec |-> r, parser |-> 1])
                       ELSE classes
         /\ result' = BuildResult(r, IF reg.ok THEN "ok" ELSE "ArgumentError")
  /\ UNCHANGED <<config, env>> /\ UNCHANGED envizeVars

\* the package's decorator: a new parser in the body of each wrapper; the
\* loop variable `field` stays in the class body, and @dataclass refuses a
\* Field attribute without annotation (TypeError) whenever the loop ran
BuildPackage(r) ==
  /\ config.impl = "package" /\ Idle /\ Len(classes) < MaxBuilds
  /\ LET reg == RegisterAll(NewParser(Prog), Registrations(fields(r)))
         kind == IF ~reg.ok THEN "ArgumentError"
                 ELSE IF fields(r) # << >> THEN "TypeError" ELSE "ok"
     IN  /\ parsers' = IF kind = "ok" THEN Append(parsers, reg.parser) ELSE parsers
         /\ classes' = IF kind = "ok"
                       THEN Append(classes, [rec |-> r, parser |-> Len(parsers) + 1])
                       ELSE classes
         /\ result' = BuildResult(r, kind)
  /\ UNCHANGED <<config, env>> /\ UNCHANGED envizeVars

\* the builder the plugins are written for: a parser of its own per record
BuildPlugin(r) ==
  /\ config.impl = "plugin" /\ Idle /\ Len(classes) < MaxBuilds
  /\ LET reg == RegisterAll(NewParser(Prog), Registrations(fields(r)))
     IN  /\ parsers' = IF reg.ok THEN Append(parsers, reg.parser) ELSE parsers
         /\ classes' = IF reg.ok
                       THEN Append(classes, [rec |-> r, parser |-> Len(parsers) + 1])
                       ELSE classes
         /\ result' = BuildResult(r, IF reg.ok THEN "ok" ELSE "ArgumentError")
  /\ UNCHANGED <<config, env>> /\ UNCHANGED envizeVars

\* os.environ[name] = val
Setenv(nv) ==
  /\ Idle
  /\ IF \E i \in 1..Len(env) : env[i].name = nv.name
     THEN env' = [i \in 1..Len(env) |->
                    IF env[i].name = nv.name THEN nv ELSE env[i]]
     ELSE Len(env) < MaxEnv /\ env' = Append(env, nv)
  /\ env' # env
  /\ UNCHANGED <<config, parsers, classes, result>> /\ UNCHANGED envizeVars

\* del os.environ[name]
Unsetenv(i) ==
  /\ Idle
  /\ env' = SubSeq(env, 1, i - 1) \o SubSeq(env, i + 1, Len(env))
  /\ UNCHANGED <<config, parsers, classes, result>> /\ UNCHANGED envizeVars

\* cls.from_args(argv)
FromArgsGiven(c, argv) ==
  /\ Idle \/ Repeats("from_args", c, TRUE, argv, << >>, EmptyNs)
  /\ result' = from_args(c, TRUE, argv, << >>)
  /\ UNCHANGED <<config, parsers, classes, env>> /\ UNCHANGED envizeVars

\* cls.from_args(), the process having been started with sys.argv[1:]
FromArgsOmitted(c, sysargv) ==
  /\ Idle \/ Repeats("from_args", c, FALSE, << >>, sysargv, EmptyNs)
  /\ result' = from_args(c, FALSE, << >>, sysargv)
  /\ UNCHANGED <<config, parsers, classes, env>> /\ UNCHANGED envizeVars

\* cls._extra_args_from_env() / cls.args_from_env(); the latter exists on
\* classes built with the ArgsFromEnv plugin
ExtraArgsFromEnv(c) ==
  /\ Idle \/ Repeats("extra_args", c, FALSE, << >>, << >>, EmptyNs)
  /\ config.impl = "plugin" => config.include_env
  /\ LET ov == _extra_args_from_env(parsers[classes[c].parser], env)
     IN  result' = [NoResult EXCEPT !.op = "extra_args", !.cls = c,
                      !.rec = classes[c].rec, !.overlaid = TRUE,
                      !.kind = ov.kind, !.envvar = ov.envvar,
                      !.extra = ov.extra, !.log = ov.log]
  /\ UNCHANGED <<config, parsers, classes, env>> /\ UNCHANGED envizeVars

\* cls(**kwargs), called directly
ConstructDirect(c, kwargs) ==
  /\ Idle \/ Repeats("construct", c, FALSE, << >>, << >>, kwargs)
  /\ LET cons == Construct(classes[c].rec, kwargs)
     IN  result' = [NoResult EXCEPT !.op = "construct", !.cls = c,
                      !.rec = classes[c].rec, !.kwargs = kwargs,
                      !.kind = cons.kind, !.record = cons.record,
                      !.field = cons.field, !.validated = cons.validated]
  /\ UNCHANGED <<config, parsers, classes, env>> /\ UNCHANGED envizeVars

\* the caller drops what the last build or call gave it
Discard ==
  /\ ~Idle
  /\ result' = NoResult
  /\ UNCHANGED <<config, parsers, classes, env>> /\ UNCHANGED envizeVars

Next ==
  \/ \E r \in Recs : BuildModule(r)
  \/ \E r \in Recs : BuildPackage(r)
  \/ \E r \in Recs : BuildPlugin(r)
  \/ \E nv \in EnvPool : Setenv(nv)
  \/ \E i \in 1..Len(env) : Unsetenv(i)
  \/ \E c \in 1..Len(classes) : \E argv \in ArgvPool : FromArgsGiven(c, argv)
  \/ \E c \in 1..Len(classes) : \E a \in SysArgvPool : FromArgsOmitted(c, a)
  \/ \E c \in 1..Len(classes) : ExtraArgsFromEnv(c)
  \/ \E c \in 1..Len(classes) :
       \E kw \in KwargsPool(classes[c].rec) : ConstructDirect(c, kw)
  \/ Discard

Spec == Init /\ [][Next]_vars

----------------------------------------------------------------------------
(* envize as a state machine of its own: a label, normalised twice *)

InitEnvize ==
  /\ label \in Labels
  /\ once = << >> /\ twice = << >> /\ phase = 0
  /\ config = [impl |-> "package", include_env |-> TRUE,
               validate_field_types |-> FALSE, env_prefix |-> << >>]
  /\ parsers = << >> /\ classes = << >> /\ env = << >> /\ result = NoResult

EnvizeLabel ==
  /\ phase = 0
  /\ once' = default_envize_string(label)
  /\ phase' = 1
  /\ UNCHANGED <<label, twice>> /\ UNCHANGED mainVars

EnvizeAgain ==
  /\ phase = 1
  /\ twice' = default_envize_string(once)
  /\ phase' = 2
  /\ UNCHANGED <<label, once>> /\ UNCHANGED mainVars

NextEnvize == EnvizeLabel \/ EnvizeAgain

SpecEnvize == InitEnvize /\ [][NextEnvize]_vars

----------------------------------------------------------------------------
(* Vocabulary of the properties *)

IsCall == result.op \in {"from_args", "extra_args", "construct"}

\* the parser of the class the last call was made on
ResultParser == parsers[classes[result.cls].parser]

\* the explicit arguments of the last from_args call
ResultExplicit == IF result.given THEN result.argv ELSE result.sysargv

\* 'APP_': every configuration of the model resolves the prefix to AP
IsPrefixedNonEmpty(nv) ==
  /\ Len(nv.name) >= 3 /\ SubSeq(nv.name, 1, 3) = <<"A","P","_">>
  /\ nv.val # << >>

TokenOf(nv) == SubSeq(nv.name, 4, Len(nv.name))

\* the registered flag strings whose normal form is the variable's token
FlagsFor(p, nv) == {opt \in OptionSet(p) : default_envize_string(opt) = TokenOf(nv)}

IsMatched(p, nv) == IsPrefixedNonEmpty(nv) /\ FlagsFor(p, nv) # {}

IsUnmatched(p, nv) == IsPrefixedNonEmpty(nv) /\ FlagsFor(p, nv) = {}

\* the destinations some token of toks sets
DestsSetBy(p, toks) ==
  {ActionOf(p, toks[i]).dest : i \in {j \in 1..Len(toks) : toks[j] \in OptionSet(p)}}

\* the destinations the matching variables of the environment set
DestsOfEnv(p) ==
  UNION {{ActionOf(p, opt).dest : opt \in FlagsFor(p, env[i])} :
           i \in {j \in 1..Len(env) : IsMatched(p, env[j])}}

KindOfDest(p, d) ==
  p.actions[CHOOSE i \in 1..Len(p.actions) : p.actions[i].dest = d].kind

\* two registrations of different fields share a flag string
HasDuplicateFlag(r) ==
  LET regs == Registrations(fields(r))
  IN  \E i, j \in 1..Len(regs) :
        /\ regs[i].dest # regs[j].dest
        /\ \E a \in 1..Len(regs[i].arg.flags), b \in 1..Len(regs[j].arg.flags) :
             regs[i].arg.flags[a] = regs[j].arg.flags[b]

FlagsOfRec(r) ==
  LET regs == Registrations(fields(r))
  IN  UNION {{regs[i].arg.flags[a] : a \in 1..Len(regs[i].arg.flags)} : i \in 1..Len(regs)}

EnvOrders(e) ==
  {[i \in 1..Len(e) |-> e[f[i]]] :
     f \in {g \in [1..Len(e) -> 1..Len(e)] : \A a, b \in 1..Len(e) : a # b => g[a] # g[b]}}

----------------------------------------------------------------------------
(* Properties *)

\* what the explicit arguments alone parse to
ExplicitNs == parse_args(ResultParser, ResultExplicit).ns

FromArgsOkWithEnv ==
  result.op = "from_args" /\ result.kind = "ok" /\ config.include_env

\* C1 (as stated): with the overlay enabled, from_args parses the overlay
\* tokens followed by the explicit tokens, and every destination set both
\* by a matching environment variable and by an explicit argument holds the
\* value the explicit arguments give it.
C1_ExplicitWins_AnyAction ==
  FromArgsOkWithEnv =>
    /\ result.tokens = result.extra \o ResultExplicit
    /\ \A d \in DestsOfEnv(ResultParser) \cap DestsSetBy(ResultParser, ResultExplicit) :
         result.record[d] = ExplicitNs[d]

\* C1 (amended): the same, for the destinations whose action overwrites
\* (store, store_true); a count action adds the occurrences from the
\* environment to the explicit ones.
C1_ExplicitWins ==
  FromArgsOkWithEnv =>
    /\ result.tokens = result.extra \o ResultExplicit
    /\ \A d \in DestsOfEnv(ResultParser) \cap DestsSetBy(ResultParser, ResultExplicit) :
         KindOfDest(ResultParser, d) # "count" => result.record[d] = ExplicitNs[d]

C1_Witness ==
  /\ FromArgsOkWithEnv /\ result.overlaid
  /\ result.extra = <<F_ct, V_5>> /\ ResultExplicit = <<F_ct, V_9>>
  /\ result.record["ct"] = IntVal(9)

\* the value an environment variable alone gives the destination of opt
EnvValue(p, opt, val) ==
  LET a == ActionOf(p, opt)
  IN  CASE a.kind = "store_true" -> BoolVal(TRUE)
        [] a.kind = "count" -> IntVal(1)
        [] a.nargs = << >> -> IntVal(IntOf(val))
        [] OTHER -> ListVal(<<IntOf(val)>>)

\* C2: with the overlay enabled, an environment variable matching a
\* registered option supplies that option's value whenever the argument
\* list of from_args (empty, explicit or omitted) does not set that
\* destination (and no other variable does).
C2_EnvSuppliesUnsetDest ==
  FromArgsOkWithEnv =>
    \A i \in 1..Len(env) : \A opt \in FlagsFor(ResultParser, env[i]) :
      LET d == ActionOf(ResultParser, opt).dest
      IN  ( /\ IsPrefixedNonEmpty(env[i])
            /\ d \notin DestsSetBy(ResultParser, ResultExplicit)
            /\ \A j \in 1..Len(env) : j # i =>
                 ~(IsMatched(ResultParser, env[j])
                   /\ \E o2 \in FlagsFor(ResultParser, env[j]) :
                        ActionOf(ResultParser, o2).dest = d) )
          => result.record[d] = EnvValue(ResultParser, opt, env[i].val)

\* C3: when the overlay is computed over an environment holding a prefixed,
\* non-empty variable that matches no registered flag, it raises an error
\* naming the first such variable; no token list is returned, the parser is
\* not run and no record is constructed, whatever matched before it.
C3_UnmatchedVariableAborts ==
  ( /\ result.op \in {"from_args", "extra_args"} /\ result.overlaid
    /\ \E i \in 1..Len(env) : IsUnmatched(ResultParser, env[i]) )
  => LET first == CHOOSE i \in 1..Len(env) :
                    /\ IsUnmatched(ResultParser, env[i])
                    /\ \A j \in 1..(i - 1) : ~IsUnmatched(ResultParser, env[j])
     IN  /\ result.kind = "ValueError"
         /\ result.envvar = env[first].name
         /\ result.extra = << >> /\ result.tokens = << >>
         /\ ~result.parsed
         /\ result.ns = EmptyNs /\ result.record = EmptyNs

C3_Witness ==
  /\ result.op = "from_args" /\ result.kind = "ValueError"
  /\ result.envvar = N_AP_X
  /\ Len(result.log) >= 1

\* C4: building a record whose field declarations register the same flag
\* string twice fails at build time with argparse's ArgumentError; no class
\* is issued for it and no parser holds a flag string twice.
C4_DuplicateFlagFailsBuild ==
  /\ (result.op = "build" /\ HasDuplicateFlag(result.rec)) =>
        result.kind = "ArgumentError"
  /\ \A c \in 1..Len(classes) : ~HasDuplicateFlag(classes[c].rec)
  /\ \A k \in 1..Len(parsers) : \A i, j \in 1..Len(parsers[k].osa) :
        i # j => parsers[k].osa[i].opt # parsers[k].osa[j].opt

C4_Witness ==
  result.op = "build" /\ result.rec = "Dup" /\ result.kind = "ArgumentError"

\* C5: after any sequence of builds every issued parser holds exactly the
\* options of its own record (and help), each once, and no build of a
\* record without duplicate flags raises a conflict.
C5_ParserHoldsOwnOptionsOnly ==
  /\ \A c \in 1..Len(classes) :
       LET p == parsers[classes[c].parser]
       IN  /\ OptionSet(p) = {F_h, F_help} \cup FlagsOfRec(classes[c].rec)
           /\ Len(p.actions) = 1 + Len(Registrations(fields(classes[c].rec)))
  /\ (result.op = "build" /\ ~HasDuplicateFlag(result.rec)) =>
        result.kind # "ArgumentError"

\* C6: with type validation enabled every record constructed, by from_args
\* or directly, has every field assignable to its declared type (a failing
\* field raises instead, naming the field); with validation disabled no
\* check is made.
C6_ValidationChecksEveryRecord ==
  (result.op \in {"from_args", "construct"} /\ result.kind \in {"ok", "AssertionError"}) =>
    /\ config.validate_field_types =>
         /\ result.validated
         /\ result.kind = "ok" =>
              \A i \in 1..Len(fields(result.rec)) :
                isassignable(result.record[fields(result.rec)[i].name],
                             fields(result.rec)[i].type)
    /\ ~config.validate_field_types => ~result.validated

\* C7: the overlay's outcome (its token list, or the variable its error
\* names) is the same for every iteration order of the environment mapping.
C7_OverlayOrderIndependent ==
  (result.op \in {"from_args", "extra_args"} /\ result.overlaid) =>
    \A e2 \in EnvOrders(env) :
      LET ov == _extra_args_from_env(ResultParser, e2)
      IN  ov.extra = result.extra /\ ov.envvar = result.envvar

\* C8: envize(envize(s)) = envize(s) for every label s.
C8_EnvizeIdempotent == phase = 2 => twice = once

C8_Witness ==
  phase = 2 /\ Len(label) = MaxLabelLen /\ Len(once) > 1 /\ once # label

\* the value of variable `name` in the environment
EnvVal(name) == env[CHOOSE i \in 1..Len(env) : env[i].name = name].val

\* the matching variables, in iteration order
RECURSIVE MatchingVars(_)
MatchingVars(e) ==
  IF e = << >> THEN << >>
  ELSE (IF IsPrefixedNonEmpty(e[1]) THEN <<e[1].name>> ELSE << >>)
       \o MatchingVars(Tail(e))

RECURSIVE PrependedGroups(_)
PrependedGroups(log) ==
  IF log = << >> THEN << >>
  ELSE PrependedGroups(Tail(log)) \o log[1].extra_arg

\* C9: for each matching variable the overlay emits the flag string alone
\* when the action's nargs is 0, and the flag string followed by the
\* variable's value otherwise; the token list is these groups, the later
\* variable's group first.
C9_EmitsFlagThenValue ==
  (result.op \in {"from_args", "extra_args"} /\ result.overlaid) =>
    /\ \A k \in 1..Len(result.log) :
         LET envvar == result.log[k].envvar
             nv == [name |-> envvar, val |-> EnvVal(envvar)]
         IN  \E opt \in FlagsFor(ResultParser, nv) :
               result.log[k].extra_arg =
                 IF ActionOf(ResultParser, opt).nargs = <<0>> THEN <<opt>>
                 ELSE <<opt, nv.val>>
    /\ result.envvar = << >> =>
         /\ [k \in 1..Len(result.log) |-> result.log[k].envvar]
              = MatchingVars(env)
         /\ result.extra = PrependedGroups(result.log)

C9_Witness ==
  /\ result.op = "extra_args" /\ result.kind = "ok"
  /\ \E k \in 1..Len(result.log) : Len(result.log[k].extra_arg) = 1
  /\ \E k \in 1..Len(result.log) : Len(result.log[k].extra_arg) = 2

\* C10: a from_args call, an overlay computation or a construction leaves
\* every parser and every issued class as it was, and a call repeated on
\* the same class with the same arguments and environment has the outcome
\* of the call before it.
C10_CallsLeaveParsersAlone ==
  [][ result'.op \in {"from_args", "extra_args", "construct"} =>
        /\ parsers' = parsers /\ classes' = classes /\ env' = env
        /\ result.op # "none" => result' = result ]_vars

C10_Witness ==
  /\ result.op = "from_args" /\ result.overlaid
  /\ result.kind = "SystemExit2" /\ result.extra # << >>

\* the environment without its empty-valued variables, order kept
RECURSIVE WithoutEmpty(_)
WithoutEmpty(e) ==
  IF e = << >> THEN << >>
  ELSE (IF e[1].val = << >> THEN << >> ELSE <<e[1]>>) \o WithoutEmpty(Tail(e))

\* a prefixed variable of the environment whose value is the empty string
HasEmptyPrefixed ==
  \E i \in 1..Len(env) :
    /\ Len(env[i].name) >= 3 /\ SubSeq(env[i].name, 1, 3) = <<"A","P","_">>
    /\ env[i].val = << >>

\* C11: a prefixed variable with an empty value contributes no token group
\* to the overlay and is never the variable an error names, whether or not
\* the rest of its name matches a registered flag: the overlay's outcome is
\* that of the environment without its empty-valued variables, and an error
\* is raised only when some prefixed variable with a non-empty value is
\* unmatched.
C11_EmptyValueContributesNothing ==
  (result.op \in {"from_args", "extra_args"} /\ result.overlaid) =>
    /\ \A k \in 1..Len(result.log) : EnvVal(result.log[k].envvar) # << >>
    /\ \A i \in 1..Len(env) :
         env[i].val = << >> => result.envvar # env[i].name
    /\ LET ov == _extra_args_from_env(ResultParser, WithoutEmpty(env))
       IN  /\ result.extra = ov.extra /\ result.log = ov.log
           /\ result.envvar = ov.envvar
    /\ result.kind = "ValueError" =>
         \E i \in 1..Len(env) : IsUnmatched(ResultParser, env[i])

C11_Witness ==
  /\ result.op = "extra_args" /\ result.kind = "ok"
  /\ HasEmptyPrefixed /\ Len(env) = 2
  /\ \E i \in 1..Len(env) : env[i] = [name |-> N_AP_X, val |-> << >>]
  /\ result.extra # << >>

====
